---- MODULE Spec2Model ----
(***************************************************************************)
(* A model of plot_scatterdata (src/scatter_smooth.py): one call of the    *)
(* function, taken stage by stage in the order of its statements.          *)
(*                                                                         *)
(*   transform -> sort -> dedup -> smooth -> draw -> axes -> done          *)
(*                                                                         *)
(* Numbers: x-values are integers (after the date conversion, day numbers).*)
(* y-values are exact rationals <<n, d>> in lowest terms with d > 0, so    *)
(* that sum(...) / len(...) is the arithmetic mean itself (the code's      *)
(* float is the double nearest to it).                                     *)
(* Python's None is the string None for the smoother and the empty         *)
(* sequence for the optional lists (x_ticks, spl_weight).                  *)
(* The fitting routines and the canvas are libraries: a fit is kept as the *)
(* record of the call that produced it, and a canvas operation as the      *)
(* record of the call.                                                     *)
(***************************************************************************)
EXTENDS Integers, Sequences, FiniteSets, TLC

\* Longest xs or ys handed to the call.
MaxLen == 3
\* Numeric x-values are 1..MaxX.
MaxX == 3

None == "None"

VARIABLES
    xs_in,          \* the argument xs (numbers, or dates when xs_type = "date")
    ys_in,          \* the argument ys
    xs_type,        \* type(xs[0]): "float" or "date"
    cfg,            \* the keyword arguments the model varies
    pc,             \* the statement the call is at
    outcome,        \* "running", "returned" (None), or the exception raised
    is_date_data,   \* local is_date_data
    xs, ys,         \* locals xs, ys (rebound by the stages)
    xs_scatter,     \* local xs_scatter
    ys_scatter,     \* local ys_scatter
    ys_per_x,       \* local ys_per_x (dict x -> list of y), empty until built
    ys_smooth,      \* local ys_smooth: the fitted curve, as the call that made it
    lib_calls,      \* the fitting routines invoked, in order, with their arguments
    canvas,         \* the canvas operations performed, in order
    log             \* the messages given to logging.error

vars == <<xs_in, ys_in, xs_type, cfg, pc, outcome, is_date_data, xs, ys,
          xs_scatter, ys_scatter, ys_per_x, ys_smooth, lib_calls, canvas, log>>

----------------------------------------------------------------------------
(* Rationals *)

Abs(n) == IF n < 0 THEN -n ELSE n

RECURSIVE GCD(_, _)
GCD(a, b) == IF b = 0 THEN a ELSE GCD(b, a % b)

\* n / d in lowest terms, d # 0.
Rat(n, d) ==
    LET g == GCD(Abs(n), Abs(d))
        s == IF d < 0 THEN -1 ELSE 1
    IN  <<(s * n) \div g, (s * d) \div g>>

RatAdd(a, b) == Rat(a[1] * b[2] + b[1] * a[2], a[2] * b[2])

\* sum(l), which starts from 0.
RECURSIVE Sum(_)
Sum(l) == IF l = <<>> THEN Rat(0, 1)
          ELSE RatAdd(Sum(SubSeq(l, 1, Len(l) - 1)), l[Len(l)])

\* sum(l) / len(l)
MeanNoDivision(l) == Sum(l)
Mean(l) == LET s == Sum(l) IN Rat(s[1], s[2] * Len(l))

----------------------------------------------------------------------------
(* Dates *)

IsLeap(y) == (y % 4 = 0 /\ y % 100 # 0) \/ y % 400 = 0

DaysInMonth(y, m) ==
    IF m = 2 THEN (IF IsLeap(y) THEN 29 ELSE 28)
    ELSE IF m \in {4, 6, 9, 11} THEN 30 ELSE 31

RECURSIVE DaysBeforeMonth(_, _)
DaysBeforeMonth(y, m) ==
    IF m = 1 THEN 0 ELSE DaysBeforeMonth(y, m - 1) + DaysInMonth(y, m - 1)

\* The proleptic Gregorian ordinal of a date (0001-01-01 is day 1).
Ordinal(dt) ==
    LET p == dt.year - 1
    IN  365 * p + (p \div 4) - (p \div 100) + (p \div 400)
          + DaysBeforeMonth(dt.year, dt.month) + dt.day

\* datestr2num(str(x)): the days from the date axis' epoch, 1970-01-01, to x.
Datestr2num(dt) == Ordinal(dt) - Ordinal([year |-> 1970, month |-> 1, day |-> 1])

\* datetime.date(year, 1, 1) raises ValueError unless MINYEAR <= year <= MAXYEAR.
DateYearOk(year) == 1 <= year /\ year <= 9999

----------------------------------------------------------------------------
(* Sequences of points *)

Min(a, b) == IF a <= b THEN a ELSE b

\* all(xs[i] <= xs[i+1] for i in range(len(xs)-1))
IsNonDecreasing(s) == \A i \in 1..(Len(s) - 1) : s[i] <= s[i + 1]

\* all(xs[i] < xs[i+1] for i in range(len(xs)-1))
IsStrictlyIncreasing(s) == \A i \in 1..(Len(s) - 1) : s[i] < s[i + 1]

\* zip(a, b): stops at the shorter of the two.
Zip(a, b) == [i \in 1..Min(Len(a), Len(b)) |-> <<a[i], b[i]>>]

Firsts(ps) == [i \in 1..Len(ps) |-> ps[i][1]]
Seconds(ps) == [i \in 1..Len(ps) |-> ps[i][2]]

\* One step of sorted(..., key=lambda t: t[0]): t goes after every element
\* whose key is not greater, so equal keys keep their order.
RECURSIVE InsertUnstable(_, _)
InsertUnstable(s, t) ==
    IF s = <<>> THEN <<t>>
    ELSE IF s[Len(s)][1] < t[1] THEN Append(s, t)
    ELSE Append(InsertUnstable(SubSeq(s, 1, Len(s) - 1), t), s[Len(s)])

RECURSIVE InsertByKey(_, _)
InsertByKey(s, t) ==
    IF s = <<>> THEN <<t>>
    ELSE IF s[Len(s)][1] <= t[1] THEN Append(s, t)
    ELSE Append(InsertByKey(SubSeq(s, 1, Len(s) - 1), t), s[Len(s)])

\* sorted(ps, key=lambda t: t[0])
RECURSIVE Sorted(_)
Sorted(ps) ==
    IF ps = <<>> THEN <<>>
    ELSE InsertByKey(Sorted(SubSeq(ps, 1, Len(ps) - 1)), ps[Len(ps)])

\* The keys of ys_per_x after the first n rounds of the loop, in the order
\* the dict holds them (first insertion).
RECURSIVE KeysInOrder(_, _)
KeysInOrder(xseq, n) ==
    IF n = 0 THEN <<>>
    ELSE LET r == KeysInOrder(xseq, n - 1)
         IN  IF \E j \in 1..Len(r) : r[j] = xseq[n] THEN r ELSE Append(r, xseq[n])

\* ys_per_x[k] after the first n rounds of the loop.
RECURSIVE Gather(_, _, _, _)
Gather(xseq, yseq, n, k) ==
    IF n = 0 THEN <<>>
    ELSE LET r == Gather(xseq, yseq, n - 1, k)
         IN  IF xseq[n] = k THEN Append(r, yseq[n]) ELSE r

\* ys_per_x after n complete rounds of
\*   for i in range(len(xs)): ys_per_x.setdefault(xs[i], []).append(ys[i])
GroupByX(xseq, yseq, n) ==
    [k \in {xseq[i] : i \in 1..n} |-> Gather(xseq, yseq, n, k)]

\* ys_per_x when round n + 1 raises at ys[i]: setdefault has already run.
GroupByXInterrupted(xseq, yseq, n) ==
    [k \in {xseq[i] : i \in 1..(n + 1)} |-> Gather(xseq, yseq, n, k)]

\* sorted([(x, sum(ys_per_x[x]) / len(ys_per_x[x])) for x in ys_per_x], key=...)
Averaged(d, keys) == Sorted([i \in 1..Len(keys) |-> <<keys[i], Mean(d[keys[i]])>>])

\* The condition under which the duplicates are averaged away.
NeedsCollapseConfigOnly(xseq, avoid, smoother) ==
    ~IsStrictlyIncreasing(xseq) /\ avoid
NeedsCollapseLowess(xseq, avoid, smoother) ==
    ~IsStrictlyIncreasing(xseq) /\ (avoid \/ smoother = "lowess")
NeedsCollapse(xseq, avoid, smoother) ==
    ~IsStrictlyIncreasing(xseq) /\ (avoid \/ smoother = "splines")

\* xs_scatter, ys_scatter: bound to the points before the averaging.
ScatterAfterCollapse(before, after) == after
ScatterData(before, after) == before

\* The branch of the if/elif chain a smoother takes.
Dispatch(smoother) ==
    CASE smoother = "lowess"  -> "lowess"
      [] smoother = "linear"  -> "linear"
      [] smoother = "splines" -> "splines"
      [] smoother = "polyfit" -> "polyfit"
      [] smoother # None      -> "unknown"
      [] OTHER                -> "none"

\* Where the call goes after logging an unknown smoother: it returns.
UnknownFallsThrough == "draw"
AfterUnknown == "done"

\* np.polyval(np.polyfit(x, y, deg), x), as the call that computes it.
PolyCurve(x, y, deg) == [fn |-> "polyfit", x |-> x, y |-> y, deg |-> deg]

Unbound == [fn |-> "unbound"]

----------------------------------------------------------------------------
(* The arguments of a call *)

XVals == 1..MaxX
\* Date x-values: two dates, a month apart.
DateVals == {[year |-> 1970, month |-> 1, day |-> 1],
             [year |-> 1970, month |-> 2, day |-> 1]}
YVals == {Rat(10, 1), Rat(20, 1)}

SeqsUpTo(S, n) == UNION {[1..k -> S] : k \in 0..n}

Smoothers == {None, "linear", "poly", "polyfit", "lowess", "splines", "bogus"}

\* The defaults of the signature.
Defaults ==
    [smoother |-> None, avoid_dups_for_smooth |-> TRUE, degree |-> 1,
     low_frac |-> Rat(66, 100), low_it |-> 3, low_delta |-> Rat(0, 1),
     spl_smooth |-> Rat(0, 1), spl_weight |-> <<>>, x_ticks |-> <<>>]

\* Every smoother with either setting of avoid_dups_for_smooth, and for each
\* smoother the parameters it reads, in and out of their documented ranges.
SmootherConfigs ==
    LET plain == {[Defaults EXCEPT !.smoother = s, !.avoid_dups_for_smooth = a] :
                     s \in Smoothers, a \in BOOLEAN}
    IN  plain
        \cup {[c EXCEPT !.degree = 2] : c \in {p \in plain : p.smoother \in {"poly", "polyfit"}}}
        \cup {[c EXCEPT !.low_frac = Rat(3, 2)] : c \in {p \in plain : p.smoother = "lowess"}}
        \cup {[c EXCEPT !.spl_smooth = Rat(-1, 1)] : c \in {p \in plain : p.smoother = "splines"}}
        \cup {[c EXCEPT !.spl_weight = <<Rat(1, 1), Rat(0, 1)>>] :
                 c \in {p \in plain : p.smoother = "splines"}}

\* x_ticks: positions for numeric data, years for date data (0 is no year).
TickChoices(type) == IF type = "date" THEN {<<1971>>, <<0>>} ELSE {<<>>}

----------------------------------------------------------------------------
(* The call *)

Init ==
    /\ xs_type \in {"float", "date"}
    /\ xs_in \in SeqsUpTo(IF xs_type = "date" THEN DateVals ELSE XVals, MaxLen)
    /\ ys_in \in SeqsUpTo(YVals, MaxLen)
    /\ \E c \in SmootherConfigs, t \in TickChoices(xs_type) :
          cfg = [c EXCEPT !.x_ticks = t]
    /\ pc = "transform"
    /\ outcome = "running"
    /\ is_date_data = FALSE
    /\ xs = xs_in
    /\ ys = ys_in
    /\ xs_scatter = <<>>
    /\ ys_scatter = <<>>
    /\ ys_per_x = <<>>
    /\ ys_smooth = Unbound
    /\ lib_calls = <<>>
    /\ canvas = <<>>
    /\ log = <<>>

\* The call ends by raising exc.
Raise(exc) == pc' = "done" /\ outcome' = exc

\* Lines 94-97: is_date_data, and the dates turned into day numbers.
TransformTimeData ==
    /\ pc = "transform"
    /\ IF xs_in = <<>>
       THEN /\ Raise("IndexError")
            /\ UNCHANGED <<is_date_data, xs>>
       ELSE /\ is_date_data' = (xs_type = "date")
            /\ xs' = IF xs_type = "date"
                     THEN [i \in 1..Len(xs) |-> Datestr2num(xs[i])]
                     ELSE xs
            /\ pc' = "sort"
            /\ UNCHANGED outcome
    /\ UNCHANGED <<xs_in, ys_in, xs_type, cfg, ys, xs_scatter, ys_scatter,
                   ys_per_x, ys_smooth, lib_calls, canvas, log>>

\* Lines 99-101: the points sorted by x unless x is already non-decreasing.
\* Unpacking zip(*[]) into xs, ys raises ValueError.
SortData ==
    /\ pc = "sort"
    /\ IF IsNonDecreasing(xs)
       THEN pc' = "dedup" /\ UNCHANGED <<xs, ys, outcome>>
       ELSE LET z == Sorted(Zip(xs, ys))
            IN  IF z = <<>>
                THEN Raise("ValueError") /\ UNCHANGED <<xs, ys>>
                ELSE /\ xs' = Firsts(z)
                     /\ ys' = Seconds(z)
                     /\ pc' = "dedup"
                     /\ UNCHANGED outcome
    /\ UNCHANGED <<xs_in, ys_in, xs_type, cfg, is_date_data, xs_scatter,
                   ys_scatter, ys_per_x, ys_smooth, lib_calls, canvas, log>>

\* Lines 103-112: the scatter points kept aside, then the duplicates averaged.
\* ys[i] raises IndexError when ys is shorter than xs.
AvoidDuplicates ==
    /\ pc = "dedup"
    /\ IF ~NeedsCollapse(xs, cfg.avoid_dups_for_smooth, cfg.smoother)
       THEN /\ xs_scatter' = ScatterData(xs, xs)
            /\ ys_scatter' = ScatterData(ys, ys)
            /\ pc' = "smooth"
            /\ UNCHANGED <<xs, ys, ys_per_x, outcome>>
       ELSE IF Len(ys) < Len(xs)
       THEN /\ xs_scatter' = xs
            /\ ys_scatter' = ys
            /\ ys_per_x' = GroupByXInterrupted(xs, ys, Len(ys))
            /\ Raise("IndexError")
            /\ UNCHANGED <<xs, ys>>
       ELSE LET d == GroupByX(xs, ys, Len(xs))
                a == Averaged(d, KeysInOrder(xs, Len(xs)))
            IN  /\ ys_per_x' = d
                /\ xs' = Firsts(a)
                /\ ys' = Seconds(a)
                /\ xs_scatter' = ScatterData(xs, Firsts(a))
                /\ ys_scatter' = ScatterData(ys, Seconds(a))
                /\ pc' = "smooth"
                /\ UNCHANGED outcome
    /\ UNCHANGED <<xs_in, ys_in, xs_type, cfg, is_date_data, ys_smooth,
                   lib_calls, canvas, log>>

\* A fitting routine is called: it returns the curve or raises. Sequences of
\* different lengths it always refuses.
LibraryFit(call) ==
    /\ lib_calls' = Append(lib_calls, call)
    /\ \E ok \in (IF Len(xs) = Len(ys) THEN BOOLEAN ELSE {FALSE}) :
          IF ok
          THEN ys_smooth' = call /\ pc' = "draw" /\ UNCHANGED outcome
          ELSE Raise("LibraryError") /\ UNCHANGED ys_smooth
    /\ UNCHANGED <<xs_in, ys_in, xs_type, cfg, is_date_data, xs, ys, xs_scatter,
                   ys_scatter, ys_per_x, canvas, log>>

\* Lines 114-116
SmoothLowess ==
    /\ pc = "smooth"
    /\ Dispatch(cfg.smoother) = "lowess"
    /\ LibraryFit([fn |-> "lowess", x |-> xs, y |-> ys, frac |-> cfg.low_frac,
                   it |-> cfg.low_it, delta |-> cfg.low_delta])

\* Lines 118-120
SmoothLinear ==
    /\ pc = "smooth"
    /\ Dispatch(cfg.smoother) = "linear"
    /\ LibraryFit(PolyCurve(xs, ys, 1))

\* Lines 122-124
SmoothSplines ==
    /\ pc = "smooth"
    /\ Dispatch(cfg.smoother) = "splines"
    /\ LibraryFit([fn |-> "UnivariateSpline", x |-> xs, y |-> ys,
                   w |-> cfg.spl_weight, k |-> cfg.degree, s |-> cfg.spl_smooth])

\* Lines 126-128
SmoothPolyfit ==
    /\ pc = "smooth"
    /\ Dispatch(cfg.smoother) = "polyfit"
    /\ LibraryFit(PolyCurve(xs, ys, cfg.degree))

\* Lines 130-132: any other string is logged, and the call returns None.
SmoothUnknown ==
    /\ pc = "smooth"
    /\ Dispatch(cfg.smoother) = "unknown"
    /\ log' = Append(log, "Unknown smoother: " \o cfg.smoother)
    /\ pc' = AfterUnknown
    /\ outcome' = IF AfterUnknown = "done" THEN "returned" ELSE outcome
    /\ UNCHANGED <<xs_in, ys_in, xs_type, cfg, is_date_data, xs, ys, xs_scatter,
                   ys_scatter, ys_per_x, ys_smooth, lib_calls, canvas>>

\* smoother is None: no branch of the chain is taken.
SmoothNone ==
    /\ pc = "smooth"
    /\ Dispatch(cfg.smoother) = "none"
    /\ pc' = "draw"
    /\ UNCHANGED <<xs_in, ys_in, xs_type, cfg, outcome, is_date_data, xs, ys,
                   xs_scatter, ys_scatter, ys_per_x, ys_smooth, lib_calls,
                   canvas, log>>

\* Lines 134-141: the axes, the scatter of the points kept aside, the curve.
\* figsize is left at None. scatter raises ValueError when its x and y differ
\* in size.
Draw ==
    /\ pc = "draw"
    /\ LET gca     == [op |-> "gca"]
           scatter == [op |-> "scatter", x |-> xs_scatter, y |-> ys_scatter]
           plot    == [op |-> "plot", x |-> xs, y |-> ys_smooth]
       IN  IF Len(xs_scatter) # Len(ys_scatter)
           THEN /\ canvas' = canvas \o <<gca>>
                /\ Raise("ValueError")
           ELSE /\ canvas' = canvas \o <<gca, scatter>>
                              \o (IF cfg.smoother # None THEN <<plot>> ELSE <<>>)
                /\ pc' = "axes"
                /\ UNCHANGED outcome
    /\ UNCHANGED <<xs_in, ys_in, xs_type, cfg, is_date_data, xs, ys, xs_scatter,
                   ys_scatter, ys_per_x, ys_smooth, lib_calls, log>>

\* Lines 143-164: ticks (years turned into day numbers for date data), the
\* year formatter for date data, tick_params. y_limit, the labels and the
\* title are left at None.
ConfigureAxes ==
    /\ pc = "axes"
    /\ LET ticks == cfg.x_ticks
           bad   == is_date_data /\ \E i \in 1..Len(ticks) : ~DateYearOk(ticks[i])
           conv  == IF is_date_data
                    THEN [i \in 1..Len(ticks) |->
                            Datestr2num([year |-> ticks[i], month |-> 1, day |-> 1])]
                    ELSE ticks
       IN  IF ticks # <<>> /\ bad
           THEN Raise("ValueError") /\ UNCHANGED canvas
           ELSE /\ canvas' = canvas
                     \o (IF ticks # <<>> THEN <<[op |-> "set_xticks", ticks |-> conv]>> ELSE <<>>)
                     \o (IF is_date_data THEN <<[op |-> "set_major_formatter"]>> ELSE <<>>)
                     \o <<[op |-> "tick_params"]>>
                /\ pc' = "done"
                /\ outcome' = "returned"
    /\ UNCHANGED <<xs_in, ys_in, xs_type, cfg, is_date_data, xs, ys, xs_scatter,
                   ys_scatter, ys_per_x, ys_smooth, lib_calls, log>>

Next ==
    \/ TransformTimeData
    \/ SortData
    \/ AvoidDuplicates
    \/ SmoothLowess
    \/ SmoothLinear
    \/ SmoothSplines
    \/ SmoothPolyfit
    \/ SmoothUnknown
    \/ SmoothNone
    \/ Draw
    \/ ConfigureAxes

Spec == Init /\ [][Next]_vars

----------------------------------------------------------------------------
(* What the properties are stated with *)

\* The argument xs on the numeric axis.
XsNum ==
    IF xs_type = "date" THEN [i \in 1..Len(xs_in) |-> Datestr2num(xs_in[i])]
    ELSE xs_in

\* The input points: xs and ys paired by position.
InPairs == Zip(XsNum, ys_in)

WellFormedInput == xs_in # <<>> /\ Len(xs_in) = Len(ys_in)

\* a < b for rationals in lowest terms.
RatLess(a, b) == a[1] * b[2] < b[1] * a[2]

HasDup(s) == \E i, j \in 1..Len(s) : i < j /\ s[i] = s[j]

\* The y-values of the points of ps at x = k, in their order in ps.
YsWithX(ps, k) == Seconds(SelectSeq(ps, LAMBDA t : t[1] = k))

\* out is inp in ascending order of x, points of equal x in inp's order.
IsStableSortOf(out, inp) ==
    /\ Len(out) = Len(inp)
    /\ IsNonDecreasing(Firsts(out))
    /\ \A k \in {inp[i][1] : i \in 1..Len(inp)} \cup {out[i][1] : i \in 1..Len(out)} :
          YsWithX(out, k) = YsWithX(inp, k)

\* The sum of the y-values of the points of ps whose indices are in S.
RECURSIVE TotalY(_, _)
TotalY(ps, S) ==
    IF S = {} THEN <<0, 1>>
    ELSE LET j == CHOOSE j \in S : TRUE
         IN  RatAdd(ps[j][2], TotalY(ps, S \ {j}))

\* y is the arithmetic mean of the y-values of the points of ps at x = k.
IsMeanAt(y, ps, k) ==
    LET S == {j \in 1..Len(ps) : ps[j][1] = k}
        t == TotalY(ps, S)
    IN  /\ S # {}
        /\ y[2] > 0
        /\ GCD(Abs(y[1]), y[2]) = 1
        /\ y[1] * t[2] * Cardinality(S) = t[1] * y[2]

\* The duplicates have been averaged away: ys_per_x was built.
Collapsed == DOMAIN ys_per_x # {}

CanvasOps(name) == {i \in 1..Len(canvas) : canvas[i].op = name}

----------------------------------------------------------------------------
(* The claims *)

\* C1: once the deduplication stage is passed, the duplicates have been
\* collapsed if and only if the input's x-values repeat and
\* (avoid_dups_for_smooth is true or the smoother is 'splines'); otherwise the
\* sequence handed to the smoother is the normalized sequence, duplicates kept.
C1_CollapseIffNeeded ==
    pc = "smooth" =>
        /\ Collapsed <=> /\ HasDup(Firsts(InPairs))
                         /\ (cfg.avoid_dups_for_smooth \/ cfg.smoother = "splines")
        /\ ~Collapsed =>
              /\ IsStableSortOf(Zip(xs, ys), InPairs)
              /\ WellFormedInput => Len(xs) = Len(xs_in) /\ Len(ys) = Len(xs_in)

C1_Witness ==
    /\ pc = "smooth"
    /\ WellFormedInput
    /\ HasDup(XsNum)
    /\ ~cfg.avoid_dups_for_smooth
    /\ cfg.smoother = "lowess"
    /\ ~Collapsed
    /\ HasDup(xs)

\* C2: when the duplicates have been collapsed, the fit sequence has one
\* point per distinct x of the input, its x strictly increasing, and each y is
\* the arithmetic mean of the input y-values at that x.
C2_CollapseAverages ==
    (pc = "smooth" /\ Collapsed) =>
        /\ Len(xs) = Len(ys)
        /\ IsStrictlyIncreasing(xs)
        /\ {xs[i] : i \in 1..Len(xs)} = {InPairs[j][1] : j \in 1..Len(InPairs)}
        /\ Len(xs) = Cardinality({InPairs[j][1] : j \in 1..Len(InPairs)})
        /\ \A i \in 1..Len(xs) : IsMeanAt(ys[i], InPairs, xs[i])

\* xs = [1, 1, 2], ys = [10, 20, 20] gives [(1, 15), (2, 20)].
C2_Witness ==
    /\ pc = "smooth"
    /\ Collapsed
    /\ xs_type = "float"
    /\ xs_in = <<1, 1, 2>>
    /\ ys_in = <<Rat(10, 1), Rat(20, 1), Rat(20, 1)>>
    /\ xs = <<1, 2>>
    /\ ys = <<Rat(15, 1), Rat(20, 1)>>

\* C3: the sequence kept for the scatter, and every sequence the scatter is
\* drawn with, is the normalized input with all its duplicates, whether or
\* not the duplicates were collapsed for the fit.
C3_ScatterKeepsDuplicates ==
    /\ pc \in {"smooth", "draw", "axes"} =>
          /\ IsStableSortOf(Zip(xs_scatter, ys_scatter), InPairs)
          /\ WellFormedInput =>
                Len(xs_scatter) = Len(xs_in) /\ Len(ys_scatter) = Len(xs_in)
    /\ \A i \in CanvasOps("scatter") :
          /\ Len(canvas[i].x) = Len(canvas[i].y)
          /\ IsStableSortOf(Zip(canvas[i].x, canvas[i].y), InPairs)
          /\ WellFormedInput => Len(canvas[i].x) = Len(xs_in)

C3_Witness ==
    /\ WellFormedInput
    /\ Collapsed
    /\ \E i \in CanvasOps("scatter") :
          /\ HasDup(canvas[i].x)
          /\ Len(xs) < Len(canvas[i].x)

\* C4: after normalization the points are the input points in ascending
\* order of x, points of equal x in their input order; an input whose x is
\* already non-decreasing is left as it is, and a sorted input without
\* duplicates reaches the smoother unchanged.
C4_NormalizationIsStableSort ==
    /\ pc = "dedup" =>
          /\ IsStableSortOf(Zip(xs, ys), InPairs)
          /\ WellFormedInput => Len(xs) = Len(xs_in) /\ Len(ys) = Len(xs_in)
          /\ IsNonDecreasing(XsNum) => xs = XsNum /\ ys = ys_in
    /\ (pc = "smooth" /\ IsStrictlyIncreasing(XsNum)) => xs = XsNum /\ ys = ys_in

C4_Witness ==
    /\ pc = "dedup"
    /\ WellFormedInput
    /\ ~IsNonDecreasing(XsNum)
    /\ xs # XsNum
    /\ \E i, j \in 1..Len(xs) : i < j /\ xs[i] = xs[j] /\ ys[i] # ys[j]

\* C5, as claimed: a call whose smoother is a string nobody recognizes
\* ends in a ConfigurationError and draws nothing.
Unrecognized(s) == s \notin {None, "linear", "poly", "polyfit", "lowess", "splines"}

C5_UnknownIsConfigurationError ==
    (pc = "done" /\ WellFormedInput /\ Unrecognized(cfg.smoother)) =>
        outcome = "ConfigurationError" /\ canvas = <<>>

\* C5, amended: a call whose smoother is a string that no branch of the
\* chain tests for ('poly' among them) fits nothing and draws nothing; no
\* ConfigurationError exists; on well-formed input the call logs
\* "Unknown smoother: <value>" and returns None.
C5_UnknownLogsAndReturns ==
    (pc = "done" /\ cfg.smoother \notin {None, "lowess", "linear", "splines", "polyfit"}) =>
        /\ canvas = <<>>
        /\ lib_calls = <<>>
        /\ ys_smooth = Unbound
        /\ outcome # "ConfigurationError"
        /\ outcome = "returned" => log = <<"Unknown smoother: " \o cfg.smoother>>
        /\ WellFormedInput => outcome = "returned"

C5_Witness ==
    /\ pc = "done"
    /\ cfg.smoother = "bogus"
    /\ outcome = "returned"
    /\ log = <<"Unknown smoother: bogus">>
    /\ canvas = <<>>

\* C6: a call with smoother 'poly' and degree 1 on well-formed input calls the
\* least-squares polynomial fit of degree 1, the fit of 'linear', and when it
\* returns it has drawn that curve over the scatter.
C6_PolyDegreeOneIsLinear ==
    (pc = "done" /\ WellFormedInput /\ cfg.smoother = "poly" /\ cfg.degree = 1) =>
        /\ lib_calls = <<PolyCurve(xs, ys, 1)>>
        /\ outcome = "returned" =>
              \E i \in CanvasOps("plot") : canvas[i].y = PolyCurve(xs, ys, 1)

\* C7: a call whose xs and ys differ in length, or whose xs is empty, fails
\* (any exception is taken for the ConfigurationError of the claim): it does
\* not return normally. Stated for a call without smoother, where no fitting
\* routine can refuse the data.
C7_MismatchedOrEmptyFails ==
    (pc = "done" /\ cfg.smoother = None
        /\ (Len(xs_in) # Len(ys_in) \/ xs_in = <<>>)) =>
        outcome # "returned"

\* C8: on well-formed input, parameters out of range never reach a fitting
\* routine and never draw:
\* lowess with low_frac outside (0, 1], splines with a negative spl_smooth or
\* a weight that is not positive.
OutOfRange(c) ==
    \/ c.smoother = "lowess"
         /\ ~(RatLess(Rat(0, 1), c.low_frac) /\ ~RatLess(Rat(1, 1), c.low_frac))
    \/ c.smoother = "splines"
         /\ \/ RatLess(c.spl_smooth, Rat(0, 1))
            \/ \E i \in 1..Len(c.spl_weight) : ~RatLess(Rat(0, 1), c.spl_weight[i])

C8_OutOfRangeRejectedBeforeFit ==
    (WellFormedInput /\ OutOfRange(cfg)) => lib_calls = <<>> /\ canvas = <<>>

\* C9: a call that ends in an error has performed no canvas operation (here
\* on well-formed input).
C9_NoDrawingBeforeError ==
    (pc = "done" /\ WellFormedInput /\ outcome # "returned") => canvas = <<>>

\* C10, as claimed: whenever lowess or splines is invoked, the x it receives
\* is strictly increasing (here on well-formed input).
C10_LowessAndSplinesStrictlyIncreasing ==
    WellFormedInput => \A i \in 1..Len(lib_calls) :
        lib_calls[i].fn \in {"lowess", "UnivariateSpline"} =>
            IsStrictlyIncreasing(lib_calls[i].x)

\* C10, amended: whenever splines is invoked the x it receives is strictly
\* increasing, for every input and either value of avoid_dups_for_smooth;
\* for lowess this holds when avoid_dups_for_smooth is true.
C10_SplinesStrictlyIncreasing ==
    \A i \in 1..Len(lib_calls) :
        /\ lib_calls[i].fn = "UnivariateSpline" => IsStrictlyIncreasing(lib_calls[i].x)
        /\ (lib_calls[i].fn = "lowess" /\ cfg.avoid_dups_for_smooth) =>
              IsStrictlyIncreasing(lib_calls[i].x)

C10_Witness ==
    /\ WellFormedInput
    /\ HasDup(XsNum)
    /\ ~cfg.avoid_dups_for_smooth
    /\ Collapsed
    /\ \E i \in 1..Len(lib_calls) :
          /\ lib_calls[i].fn = "UnivariateSpline"
          /\ Len(lib_calls[i].x) < Len(xs_in)

====
